---------------------------- MODULE Spec2Model ----------------------------
(***************************************************************************)
(* Altitude-crossing detection and refinement (rise / set search), the     *)
(* batch observation service, and the day of the week.                     *)
(*                                                                         *)
(* Models src/MoonRiseAndSet.py (find_altitude_crossings, moonrise,        *)
(* moonset), src/SunRiseAndSet.py (sunrise, sunset,                        *)
(* _refine_crossing_time), src/api/services/batch_earth_observations.py    *)
(* with its two routes in src/api/routes.py, and src/DayOfTheWeek.py.      *)
(* Each has its own specification: SpecFac, SpecDaily, SpecRefine (with    *)
(* SpecRefineLive for termination), SpecRepeat, SpecBatch and SpecWeekday. *)
(*                                                                         *)
(* Time.  An instant is an integer tick: one tick is one representable     *)
(* step of the float Julian date the code bisects on.  The midpoint        *)
(* 0.5 * (left.jd + right.jd) of two adjacent floats is one of the two;    *)
(* the model rounds it down.  A tolerance is given in half ticks, so that  *)
(* tolerance = 1 is a positive tolerance below the time resolution,        *)
(* tolerance = 2 is one tick, and tolerance <= 0 is a malformed one.       *)
(*                                                                         *)
(* Altitude.  The position provider is a black box: alt is a function      *)
(* from ticks to an altitude, drawn once per run from a bounded family     *)
(* (walks that go up or down by one altitude step per tick).  The scalar   *)
(* call alt_at(t) and the vectorised call over a grid read the same        *)
(* function.  The target altitude is 0 (a sample may lie exactly at the    *)
(* target) or 1 (altitudes are even, so a crossing lies between ticks).    *)
(***************************************************************************)
EXTENDS Integers, Sequences, FiniteSets

VARIABLES
    op,            \* the function being run
    pc,            \* position in it: "start", "loop", "bisect", "done", "raised", ...
    alt,           \* the altitude function of the position provider
    target,        \* target_altitude (target_val)
    julianDate,    \* daily searches: the julianDate argument, in ticks
    start_time,    \* find_altitude_crossings: start_time
    end_time,      \* find_altitude_crossings: end_time
    coarse_step,   \* find_altitude_crossings: coarse_step
    tolerance,     \* tolerance, in half ticks
    times,         \* the coarse time grid
    diffs,         \* altitude - target at each grid instant
    noon_idx,      \* daily search: index of the maximum altitude
    sign_changes,  \* find_altitude_crossings: indices i with sign(diffs[i]) # sign(diffs[i+1])
    k,             \* position of the for loop in sign_changes
    left,          \* bracket, left instant
    right,         \* bracket, right instant
    left_val,      \* altitude - target at left
    right_val,     \* altitude - target at right
    crossings,     \* events found so far
    ret,           \* the returned value: a list of events, or <<t>> / << >> (None)
    err,           \* the exception raised, "" when none
    calls,         \* the number of calls made with the same inputs
    prev,          \* the outcome of the call before the current one
    jd,            \* jd_to_weekday: the jd argument, a float
    frame_count,   \* batch request: frame_count
    latitude,      \* batch request: latitude, in degrees
    longitude,     \* batch request: longitude, in degrees
    start_dt,      \* batch request: start date and time, in seconds
    end_dt,        \* batch request: end date and time, in seconds
    yielded,       \* the items the batch generator has yielded so far
    frames,        \* POST route: frames
    metadata,      \* POST route: metadata, << >> for None
    events,        \* SSE route: the events sent on the stream
    status,        \* the HTTP status of the response, 0 while there is none
    detail         \* the detail of the HTTP error or the message of the exception

\* the variables of the rise / set searches, their inputs included
searchVars == <<alt, target, julianDate, start_time, end_time, coarse_step,
                tolerance, times, diffs, noon_idx, sign_changes, k, left, right,
                left_val, right_val, crossings>>

\* the variables of the batch service and its two routes
batchVars == <<frame_count, latitude, longitude, start_dt, end_dt, yielded,
               frames, metadata, events, status, detail>>

\* what a rise / set search leaves alone
outsideSearch == <<julianDate, calls, prev, jd, batchVars>>

vars == <<op, pc, ret, err, searchVars, calls, prev, jd, batchVars>>

\* the values of the variables that a specification does not use
NoSearch ==
    /\ alt = << >>
    /\ target = 0
    /\ julianDate = 0
    /\ start_time = 0
    /\ end_time = 0
    /\ coarse_step = 0
    /\ tolerance = 0
    /\ times = << >>
    /\ diffs = << >>
    /\ noon_idx = 0
    /\ sign_changes = << >>
    /\ k = 0
    /\ left = 0
    /\ right = 0
    /\ left_val = 0
    /\ right_val = 0
    /\ crossings = << >>

NoBatch ==
    /\ frame_count = 0
    /\ latitude = 0
    /\ longitude = 0
    /\ start_dt = 0
    /\ end_dt = 0
    /\ yielded = << >>
    /\ frames = << >>
    /\ metadata = << >>
    /\ events = << >>
    /\ status = 0
    /\ detail = << >>

NoWeekday == jd = 0

\* the first call: no call came before it
FirstCall == calls = 1 /\ prev = << >>

---------------------------------------------------------------------------
(* Bounds of the model. *)

\* window instants are the ticks 0..MaxTime
MaxTime == 4
\* coarse_step is drawn from 1..MaxStep ticks
MaxStep == 3
\* tolerance is drawn from -1..MaxTol half ticks
MaxTol == 4
\* the altitude at the first tick is drawn from -2*MaxAlt..2*MaxAlt
MaxAlt == 2

\* epsilon = 1 * u.minute: the offset of the slope test, in ticks
Eps == 1

---------------------------------------------------------------------------
(* The position provider. *)

DomLo == 0 - Eps
DomHi == MaxTime + Eps
Dom == DomLo..DomHi

Slopes == {-2, 2}
StartAlts == {2 * a : a \in (0 - MaxAlt)..MaxAlt}
Targets == {0, 1}

\* the altitude function that starts at a0 and changes by inc[t] from t-1 to t
Walk(lo, hi, a0, inc) ==
    LET f[t \in lo..hi] == IF t = lo THEN a0 ELSE f[t - 1] + inc[t]
    IN  [t \in lo..hi |-> f[t]]

Profiles(lo, hi) ==
    {Walk(lo, hi, a0, inc) : a0 \in StartAlts, inc \in [(lo + 1)..hi -> Slopes]}

\* alt_at_time(t) / alt_at(t, location): the altitude at one instant
alt_at(f, t) == f[t]

---------------------------------------------------------------------------
(* numpy helpers. *)

\* np.sign
Sign(x) == IF x > 0 THEN 1 ELSE IF x < 0 THEN -1 ELSE 0

\* np.ceil(a / b) for b > 0
CeilDiv(a, b) == 0 - ((0 - a) \div b)

\* np.linspace(0, duration, n)[i] (1-based i), rounded down to a tick
Linspace(duration, n, i) ==
    IF n = 1 THEN 0 ELSE ((i - 1) * duration) \div (n - 1)

\* 0.5 * (left.jd + right.jd)
Mid(l, r) == (l + r) \div 2

\* (right.jd - left.jd) > tol_days
Exceeds(l, r, tol) == 2 * (r - l) > tol

---------------------------------------------------------------------------
(* find_altitude_crossings *)

\* NSteps with a fault: the quotient is rounded down
NSteps_Floor(s, e, step) == ((e - s) \div step) + 1

\* n_steps = int(np.ceil(duration / coarse_step)) + 1
NSteps(s, e, step) == CeilDiv(e - s, step) + 1

\* start_time + np.linspace(0, duration, n)[i] as an exact fraction of ticks:
\* the numerator over n - 1
GridInstant(s, e, n, i) == s * (n - 1) + (i - 1) * (e - s)

\* times = start_time + np.linspace(0, duration, n_steps) * u.second
GridTimes(s, e, step) ==
    LET n == NSteps(s, e, step)
    IN  [i \in 1..n |-> s + Linspace(e - s, n, i)]

\* diffs = altitudes - target_val
GridDiffs(f, ts, tgt) == [i \in 1..Len(ts) |-> alt_at(f, ts[i]) - tgt]

\* SignDiffers with a fault: a sample exactly at the target counts as above it
SignDiffers_ZeroAsAbove(d, i) == (d[i + 1] < 0) # (d[i] < 0)

\* np.diff(signs) != 0 at index i
SignDiffers(d, i) == Sign(d[i + 1]) - Sign(d[i]) # 0

\* sign_changes = np.where(np.diff(signs) != 0)[0]
SignChanges(d) ==
    SelectSeq([i \in 1..(Len(d) - 1) |-> i], LAMBDA i : SignDiffers(d, i))

\* if mid_val < 0: left = mid else: right = mid
FacMovesLeft(mid_val) == mid_val < 0

\* crossing_time = right if right_val >= 0 else left
CrossingTime(l, r, rv) == IF rv >= 0 THEN r ELSE l

\* slope = alt_at_time(t_after) - alt_at_time(t_before)
Slope(f, t) == alt_at(f, t + Eps) - alt_at(f, t - Eps)

\* EventType with a fault: the two tags swapped
EventType_Swapped(slope) == IF slope > 0 THEN "set" ELSE "rise"

\* event_type = 'rise' if slope > 0 else 'set'
EventType(slope) == IF slope > 0 THEN "rise" ELSE "set"

\* AppendEvent with a fault: the event is put at the front of the list
AppendEvent_AtFront(evs, t, type) == <<[time |-> t, type |-> type]>> \o evs

\* crossings.append((crossing_time, event_type))
AppendEvent(evs, t, type) == Append(evs, [time |-> t, type |-> type])

\* NewList with a fault: the list is one object that all calls share
NewList_Shared(old) == old

\* crossings = []: a new list, whatever the name was bound to before
NewList(old) == << >>

\* lines 272-298: build the grid, sample, detect the sign changes
FacSample ==
    /\ op = "find_altitude_crossings"
    /\ pc = "start"
    /\ IF NSteps(start_time, end_time, coarse_step) < 0
       THEN \* np.linspace raises ValueError for a negative number of samples
            /\ pc' = "raised"
            /\ err' = "ValueError"
            /\ UNCHANGED <<times, diffs, sign_changes, k, crossings, ret>>
       ELSE LET ts == GridTimes(start_time, end_time, coarse_step)
                d  == GridDiffs(alt, ts, target)
                sc == SignChanges(d)
            IN  /\ times' = ts
                /\ diffs' = d
                /\ sign_changes' = sc
                /\ crossings' = NewList(crossings)
                /\ k' = 1
                /\ IF Len(sc) = 0
                   THEN pc' = "done" /\ ret' = << >>
                   ELSE pc' = "loop" /\ ret' = ret
                /\ err' = err
    /\ UNCHANGED <<op, alt, target, start_time, end_time, coarse_step, tolerance,
                   noon_idx, left, right, left_val, right_val>>
    /\ UNCHANGED outsideSearch

\* lines 301-305: the next bracket
FacBracket ==
    /\ op = "find_altitude_crossings"
    /\ pc = "loop"
    /\ k <= Len(sign_changes)
    /\ LET idx == sign_changes[k]
       IN  /\ left' = times[idx]
           /\ right' = times[idx + 1]
           /\ left_val' = diffs[idx]
           /\ right_val' = diffs[idx + 1]
    /\ pc' = "bisect"
    /\ UNCHANGED <<op, alt, target, start_time, end_time, coarse_step, tolerance,
                   times, diffs, noon_idx, sign_changes, k, crossings, ret, err>>
    /\ UNCHANGED outsideSearch

\* lines 308-317: one iteration of the bisection
FacBisect ==
    /\ op = "find_altitude_crossings"
    /\ pc = "bisect"
    /\ Exceeds(left, right, tolerance)
    /\ LET mid     == Mid(left, right)
           mid_val == alt_at(alt, mid) - target
       IN  IF FacMovesLeft(mid_val)
           THEN /\ left' = mid
                /\ left_val' = mid_val
                /\ UNCHANGED <<right, right_val>>
           ELSE /\ right' = mid
                /\ right_val' = mid_val
                /\ UNCHANGED <<left, left_val>>
    /\ UNCHANGED <<op, pc, alt, target, start_time, end_time, coarse_step,
                   tolerance, times, diffs, noon_idx, sign_changes, k, crossings,
                   ret, err>>
    /\ UNCHANGED outsideSearch

\* lines 319-331: the crossing instant and its direction
FacClassify ==
    /\ op = "find_altitude_crossings"
    /\ pc = "bisect"
    /\ ~Exceeds(left, right, tolerance)
    /\ LET crossing_time == CrossingTime(left, right, right_val)
           event_type    == EventType(Slope(alt, crossing_time))
       IN  crossings' = AppendEvent(crossings, crossing_time, event_type)
    /\ k' = k + 1
    /\ pc' = "loop"
    /\ UNCHANGED <<op, alt, target, start_time, end_time, coarse_step, tolerance,
                   times, diffs, noon_idx, sign_changes, left, right, left_val,
                   right_val, ret, err>>
    /\ UNCHANGED outsideSearch

\* line 333: return crossings
FacReturn ==
    /\ op = "find_altitude_crossings"
    /\ pc = "loop"
    /\ k > Len(sign_changes)
    /\ ret' = crossings
    /\ pc' = "done"
    /\ UNCHANGED <<op, alt, target, start_time, end_time, coarse_step, tolerance,
                   times, diffs, noon_idx, sign_changes, k, left, right, left_val,
                   right_val, crossings, err>>
    /\ UNCHANGED outsideSearch

\* the windows a call is made with: end after, at and before start
Windows == {<<0, e>> : e \in 0..MaxTime} \cup {<<s, 0>> : s \in 1..2}

\* a call of find_altitude_crossings about to run.  Calls whose grid is empty
\* (n_steps = 0) are left out: what the position provider does with an empty
\* array of instants is not in the source.
InitFac ==
    /\ op = "find_altitude_crossings"
    /\ pc = "start"
    /\ alt \in Profiles(DomLo, DomHi)
    /\ target \in Targets
    /\ \E w \in Windows : start_time = w[1] /\ end_time = w[2]
    /\ coarse_step \in 1..MaxStep
    /\ tolerance \in -1..MaxTol
    /\ NSteps(start_time, end_time, coarse_step) # 0
    /\ times = << >>
    /\ diffs = << >>
    /\ noon_idx = 0
    /\ sign_changes = << >>
    /\ k = 0
    /\ left = 0
    /\ right = 0
    /\ left_val = 0
    /\ right_val = 0
    /\ crossings = << >>
    /\ ret = << >>
    /\ err = ""
    /\ julianDate = 0
    /\ FirstCall
    /\ NoWeekday
    /\ NoBatch

NextFac == FacSample \/ FacBracket \/ FacBisect \/ FacClassify \/ FacReturn

SpecFac == InitFac /\ [][NextFac]_vars

---------------------------------------------------------------------------
(* The daily searches: sunrise, sunset, moonrise, moonset. *)

\* np.linspace(-12, 12, 241): the number of samples of the daily grid
DailyN == 4
\* the spacing of the daily grid (0.1 hour), in ticks
DailyGap == 2

\* the length of the daily window (24 hours), in ticks
DailyHi == (DailyN - 1) * DailyGap
\* 12 hours, 0.5 * u.day
HalfDay == DailyHi \div 2
DailyOps == {"sunrise", "sunset", "moonrise", "moonset"}

\* the julianDate arguments: tick 0 is 00:00 UTC of a date, tick 1 a later
\* time of day of the same date
JulianDates == {0, 1}

MaxOf(S) == CHOOSE x \in S : \A y \in S : y <= x

\* midday = Time(julianDate, format='jd', scale='utc') + 0.5 * u.day
Midday(d) == d + HalfDay

\* hours = np.linspace(-12, 12, 241)
Hours == [i \in 1..DailyN |-> (i - 1) * DailyGap - HalfDay]

\* times = midday + hours * u.hour
DailyTimes(d) == [i \in 1..DailyN |-> Midday(d) + Hours[i]]

\* ArgMax with a fault: the last index of the maximum
ArgMax_Last(f, ts) ==
    CHOOSE i \in 1..Len(ts) :
        /\ \A j \in 1..Len(ts) : f[ts[j]] <= f[ts[i]]
        /\ \A j \in (i + 1)..Len(ts) : f[ts[j]] < f[ts[i]]

\* noon_idx = int(np.argmax(altitudes.value)): the first index of the maximum
ArgMax(f, ts) ==
    CHOOSE i \in 1..Len(ts) :
        /\ \A j \in 1..Len(ts) : f[ts[j]] <= f[ts[i]]
        /\ \A j \in 1..(i - 1) : f[ts[j]] < f[ts[i]]

\* np.where(zone >= 0)[0] over diffs[: noon_idx + 1]; 0 when it is empty
FirstNonNeg(d, noon) ==
    IF \E i \in 1..noon : d[i] >= 0
    THEN CHOOSE i \in 1..noon : d[i] >= 0 /\ \A j \in 1..(i - 1) : d[j] < 0
    ELSE 0

\* FirstNonPos with a fault: zone < 0 in place of zone <= 0
FirstNonPos_Strict(d, noon) ==
    IF \E i \in noon..Len(d) : d[i] < 0
    THEN CHOOSE i \in noon..Len(d) : d[i] < 0 /\ \A j \in noon..(i - 1) : d[j] >= 0
    ELSE 0

\* np.where(zone <= 0)[0] over diffs[noon_idx:]; 0 when it is empty
FirstNonPos(d, noon) ==
    IF \E i \in noon..Len(d) : d[i] <= 0
    THEN CHOOSE i \in noon..Len(d) : d[i] <= 0 /\ \A j \in noon..(i - 1) : d[j] > 0
    ELSE 0

NoBracket == [kind |-> "None", left |-> 0, right |-> 0, left_val |-> 0, right_val |-> 0]
Raises(e) == [kind |-> e, left |-> 0, right |-> 0, left_val |-> 0, right_val |-> 0]
Bracket(l, r, lv, rv) ==
    [kind |-> "bracket", left |-> l, right |-> r, left_val |-> lv, right_val |-> rv]

\* while j >= 0 and left_val > 0: left = times[j]; left_val = alt_at(left) - target; j -= 1
RECURSIVE StepLeftWhileAbove(_, _, _, _, _, _)
StepLeftWhileAbove(f, ts, tgt, j, l, lv) ==
    IF j >= 1 /\ lv > 0
    THEN StepLeftWhileAbove(f, ts, tgt, j - 1, ts[j], alt_at(f, ts[j]) - tgt)
    ELSE <<l, lv>>

\* while j >= 0 and left_val < 0: left = times[j]; left_val = alt_at(left) - target; j -= 1
RECURSIVE StepLeftWhileBelow(_, _, _, _, _, _)
StepLeftWhileBelow(f, ts, tgt, j, l, lv) ==
    IF j >= 1 /\ lv < 0
    THEN StepLeftWhileBelow(f, ts, tgt, j - 1, ts[j], alt_at(f, ts[j]) - tgt)
    ELSE <<l, lv>>

\* while j < len(times) and right_val > 0: right = times[j]; right_val = ...; j += 1
RECURSIVE StepRightWhileAbove(_, _, _, _, _, _)
StepRightWhileAbove(f, ts, tgt, j, r, rv) ==
    IF j <= Len(ts) /\ rv > 0
    THEN StepRightWhileAbove(f, ts, tgt, j + 1, ts[j], alt_at(f, ts[j]) - tgt)
    ELSE <<r, rv>>

\* SunriseBracket with a fault: the check of left_val > 0 is left out
SunriseBracket_Unchecked(f, ts, tgt) ==
    LET d    == GridDiffs(f, ts, tgt)
        noon == ArgMax(f, ts)
        idx  == FirstNonNeg(d, noon)
    IN  IF idx = 0 THEN NoBracket
        ELSE LET l0 == IF idx = 1 THEN ts[1] ELSE ts[idx - 1]
                 r0 == IF idx = 1 THEN ts[2] ELSE ts[idx]
             IN  Bracket(l0, r0, alt_at(f, l0) - tgt, 0)

\* sunrise, from the morning zone to the bracket handed to the bisection
SunriseBracket(f, ts, tgt) ==
    LET d    == GridDiffs(f, ts, tgt)
        noon == ArgMax(f, ts)
        idx  == FirstNonNeg(d, noon)
    IN  IF idx = 0 THEN NoBracket
        ELSE LET l0 == IF idx = 1 THEN ts[1] ELSE ts[idx - 1]
                 r0 == IF idx = 1 THEN ts[2] ELSE ts[idx]
                 lv == alt_at(f, l0) - tgt
                 st == StepLeftWhileAbove(f, ts, tgt, idx - 1, l0, lv)
             IN  IF lv > 0
                 THEN IF st[2] > 0 THEN NoBracket ELSE Bracket(st[1], r0, st[2], 0)
                 ELSE Bracket(l0, r0, lv, 0)

\* sunset, from the evening zone to the bracket handed to the bisection
SunsetBracket(f, ts, tgt) ==
    LET d    == GridDiffs(f, ts, tgt)
        noon == ArgMax(f, ts)
        abs  == FirstNonPos(d, noon)
    IN  IF abs = 0 THEN NoBracket
        ELSE IF abs = noon THEN NoBracket
        ELSE LET l0 == ts[abs - 1]
                 r0 == ts[abs]
                 lv == alt_at(f, l0) - tgt
                 rv == alt_at(f, r0) - tgt
                 sl == IF lv < 0 THEN StepLeftWhileBelow(f, ts, tgt, abs - 2, l0, lv)
                       ELSE <<l0, lv>>
                 sr == IF rv > 0 THEN StepRightWhileAbove(f, ts, tgt, abs + 1, r0, rv)
                       ELSE <<r0, rv>>
             IN  IF sl[2] < 0 THEN NoBracket
                 ELSE IF sr[2] > 0 THEN NoBracket
                 ELSE Bracket(sl[1], sr[1], sl[2], sr[2])

\* moonrise, from the morning zone to the bracket handed to the bisection
MoonriseBracket(f, ts, tgt) ==
    LET d    == GridDiffs(f, ts, tgt)
        noon == ArgMax(f, ts)
        idx  == FirstNonNeg(d, noon)
    IN  IF idx = 0 THEN NoBracket
        ELSE LET l0 == IF idx = 1 THEN ts[1] ELSE ts[idx - 1]
                 r0 == IF idx = 1 THEN ts[2] ELSE ts[idx]
                 lv == alt_at(f, l0) - tgt
                 st == StepLeftWhileAbove(f, ts, tgt, idx - 1, l0, lv)
             IN  IF lv > 0
                 THEN IF st[2] > 0 THEN NoBracket ELSE Bracket(st[1], r0, st[2], 0)
                 ELSE Bracket(l0, r0, lv, 0)

\* MoonsetBracket with a fault: rel_idx >= 0 in place of rel_idx == 0, so that
\* every search ends in 'no moonset later'
MoonsetBracket_NoneAfterNoon(f, ts, tgt) == NoBracket

\* MoonsetBracket with a fault: the return of None for rel_idx == 0 is left
\* out, so that the pair before noon is examined (times[-1] is the last sample)
MoonsetBracket_NoNoonCheck(f, ts, tgt) ==
    LET d    == GridDiffs(f, ts, tgt)
        noon == ArgMax(f, ts)
        abs  == FirstNonPos(d, noon)
    IN  IF abs = 0 THEN NoBracket
        ELSE LET l0 == IF abs = 1 THEN ts[Len(ts)] ELSE ts[abs - 1]
                 r0 == ts[abs]
                 lv == alt_at(f, l0) - tgt
                 rv == alt_at(f, r0) - tgt
                 sr == IF rv > 0 THEN StepRightWhileAbove(f, ts, tgt, abs + 1, r0, rv)
                       ELSE <<r0, rv>>
             IN  IF lv < 0
                 THEN IF abs - 2 >= 1 THEN Raises("TypeError") ELSE NoBracket
                 ELSE IF sr[2] > 0 THEN NoBracket
                 ELSE Bracket(l0, sr[1], lv, sr[2])

\* moonset, from the evening zone to the bracket handed to the bisection.  The
\* step-left loop calls alt_at(left) without the location: its first iteration
\* raises TypeError.
MoonsetBracket(f, ts, tgt) ==
    LET d    == GridDiffs(f, ts, tgt)
        noon == ArgMax(f, ts)
        abs  == FirstNonPos(d, noon)
    IN  IF abs = 0 THEN NoBracket
        ELSE IF abs = noon THEN NoBracket
        ELSE LET l0 == ts[abs - 1]
                 r0 == ts[abs]
                 lv == alt_at(f, l0) - tgt
                 rv == alt_at(f, r0) - tgt
                 sr == IF rv > 0 THEN StepRightWhileAbove(f, ts, tgt, abs + 1, r0, rv)
                       ELSE <<r0, rv>>
             IN  IF lv < 0
                 THEN IF abs - 2 >= 1 THEN Raises("TypeError") ELSE NoBracket
                 ELSE IF sr[2] > 0 THEN NoBracket
                 ELSE Bracket(l0, sr[1], lv, sr[2])

\* RefineMovesLeft with a fault: the test of the ascending case is used for
\* the descending case as well
RefineMovesLeft_AscendingOnly(mid_val, ascending) == mid_val < 0

\* the bisection moves left to mid: below the target when ascending, above it
\* when descending
RefineMovesLeft(mid_val, ascending) ==
    IF ascending THEN mid_val < 0 ELSE mid_val > 0

\* one iteration of the bisection of a daily search: the new <<left, right>>
RefineStep(f, tgt, l, r, ascending) ==
    LET mid     == Mid(l, r)
        mid_val == alt_at(f, mid) - tgt
    IN  IF RefineMovesLeft(mid_val, ascending) THEN <<mid, r>> ELSE <<l, mid>>

\* _refine_crossing_time, and the same loop written out in moonrise and moonset
RECURSIVE RefineCrossingTime(_, _, _, _, _, _)
RefineCrossingTime(f, tgt, l, r, tol, ascending) ==
    IF Exceeds(l, r, tol)
    THEN LET s == RefineStep(f, tgt, l, r, ascending)
         IN  RefineCrossingTime(f, tgt, s[1], s[2], tol, ascending)
    ELSE r

Ascending(o) == o \in {"sunrise", "moonrise"}

BracketOf(o, f, ts, tgt) ==
    IF o = "sunrise" THEN SunriseBracket(f, ts, tgt)
    ELSE IF o = "sunset" THEN SunsetBracket(f, ts, tgt)
    ELSE IF o = "moonrise" THEN MoonriseBracket(f, ts, tgt)
    ELSE MoonsetBracket(f, ts, tgt)

\* the value a daily search returns: << >> for None, <<t>> for an instant
DailyResult(o, f, tgt, tol, d) ==
    LET b == BracketOf(o, f, DailyTimes(d), tgt)
    IN  IF b.kind = "bracket"
        THEN <<RefineCrossingTime(f, tgt, b.left, b.right, tol, Ascending(o))>>
        ELSE << >>

\* a daily search up to its bisection: sample, find noon, choose the bracket
DailyStart ==
    /\ op \in DailyOps
    /\ pc = "start"
    /\ times' = DailyTimes(julianDate)
    /\ diffs' = GridDiffs(alt, DailyTimes(julianDate), target)
    /\ noon_idx' = ArgMax(alt, DailyTimes(julianDate))
    /\ LET b == BracketOf(op, alt, DailyTimes(julianDate), target)
       IN  /\ left' = b.left
           /\ right' = b.right
           /\ left_val' = b.left_val
           /\ right_val' = b.right_val
           /\ pc' = IF b.kind = "bracket" THEN "bisect"
                    ELSE IF b.kind = "None" THEN "done" ELSE "raised"
           /\ err' = IF b.kind \in {"bracket", "None"} THEN "" ELSE b.kind
    /\ UNCHANGED <<op, alt, target, start_time, end_time, coarse_step, tolerance,
                   sign_changes, k, crossings, ret>>
    /\ UNCHANGED outsideSearch

\* one iteration of the bisection of a daily search
DailyBisect ==
    /\ op \in DailyOps
    /\ pc = "bisect"
    /\ Exceeds(left, right, tolerance)
    /\ LET s == RefineStep(alt, target, left, right, Ascending(op))
       IN  left' = s[1] /\ right' = s[2]
    /\ UNCHANGED <<op, pc, alt, target, start_time, end_time, coarse_step,
                   tolerance, times, diffs, noon_idx, sign_changes, k, left_val,
                   right_val, crossings, ret, err>>
    /\ UNCHANGED outsideSearch

\* return right
DailyReturn ==
    /\ op \in DailyOps
    /\ pc = "bisect"
    /\ ~Exceeds(left, right, tolerance)
    /\ ret' = <<right>>
    /\ pc' = "done"
    /\ UNCHANGED <<op, alt, target, start_time, end_time, coarse_step, tolerance,
                   times, diffs, noon_idx, sign_changes, k, left, right, left_val,
                   right_val, crossings, err>>
    /\ UNCHANGED outsideSearch

\* a daily search about to run, with a julianDate out of dates
DailyCall(dates) ==
    /\ op \in DailyOps
    /\ pc = "start"
    /\ alt \in Profiles(0, MaxOf(dates) + DailyHi)
    /\ target \in Targets
    /\ julianDate \in dates
    /\ start_time = 0
    /\ end_time = DailyHi
    /\ coarse_step = DailyGap
    /\ tolerance \in -1..MaxTol
    /\ times = << >>
    /\ diffs = << >>
    /\ noon_idx = 0
    /\ sign_changes = << >>
    /\ k = 0
    /\ left = 0
    /\ right = 0
    /\ left_val = 0
    /\ right_val = 0
    /\ crossings = << >>
    /\ ret = << >>
    /\ err = ""
    /\ FirstCall
    /\ NoWeekday
    /\ NoBatch

InitDaily == DailyCall(JulianDates)

NextDaily == DailyStart \/ DailyBisect \/ DailyReturn

SpecDaily == InitDaily /\ [][NextDaily]_vars

---------------------------------------------------------------------------
(* The bisection of the daily searches on its own: _refine_crossing_time    *)
(* and the loops of moonrise and moonset, started on any two instants.      *)

\* A bisection about to run on left = 0 and a right up to a day later: time is
\* counted from left, and the altitude is drawn for the instants from left to
\* right.  left_val and right_val are the values at the two instants handed in.
InitRefine ==
    /\ op \in DailyOps
    /\ pc = "bisect"
    /\ left = 0
    /\ right \in 0..DailyHi
    /\ alt \in Profiles(0, right)
    /\ target \in Targets
    /\ left_val = alt_at(alt, left) - target
    /\ right_val = alt_at(alt, right) - target
    /\ tolerance \in -1..MaxTol
    /\ julianDate = 0
    /\ start_time = 0
    /\ end_time = 0
    /\ coarse_step = 0
    /\ times = << >>
    /\ diffs = << >>
    /\ noon_idx = 0
    /\ sign_changes = << >>
    /\ k = 0
    /\ crossings = << >>
    /\ ret = << >>
    /\ err = ""
    /\ FirstCall
    /\ NoWeekday
    /\ NoBatch

NextRefine == DailyBisect \/ DailyReturn

SpecRefine == InitRefine /\ [][NextRefine]_vars

---------------------------------------------------------------------------
(* The same call made again. *)

\* what the caller sees of a call: the value returned and the exception raised
Outcome == [ret |-> ret, err |-> err]

\* The function is called a second time with the same inputs, after the first
\* call has returned or raised.  The variables of the earlier call keep their
\* values: whatever the new call reads, it has to assign first.
CallAgain ==
    /\ pc \in {"done", "raised"}
    /\ calls = 1
    /\ prev' = <<Outcome>>
    /\ calls' = calls + 1
    /\ pc' = "start"
    /\ ret' = << >>
    /\ err' = ""
    /\ UNCHANGED <<op, searchVars, jd, batchVars>>

\* the daily searches are repeated for the julianDate at 00:00 UTC
InitRepeat == InitFac \/ DailyCall({0})

NextRepeat == NextFac \/ NextDaily \/ CallAgain

SpecRepeat == InitRepeat /\ [][NextRepeat]_vars

---------------------------------------------------------------------------
(* The batch service, src/api/services/batch_earth_observations.py, and its *)
(* two routes in src/api/routes.py.                                         *)
(*                                                                          *)
(* A date and time is a whole number of seconds.  The instant of a frame is *)
(* a fraction of a second: it is kept as a count of 1 / per seconds.  The   *)
(* positions computed for a frame are not modelled, a frame is its instant  *)
(* and its datetime string.                                                 *)

\* frame_count is drawn from 0..MaxFrames
MaxFrames == 3
\* the start and the end of a request are drawn from 0..MaxSeconds
MaxSeconds == 3
\* le=10000 on frame_count in BatchEarthObservationsRequest
FrameCountLimit == 10000

Latitudes == {-91, -90, 0, 90, 91}
Longitudes == {-181, -180, 0, 180, 181}
BatchOps == {"consume", "post", "stream"}

\* ServiceError with a fault: the order of start and end is not checked
ServiceError_NoTimeOrder(fc, lat, lon, s, e) ==
    IF fc < 2 THEN "frame_count must be at least 2"
    ELSE IF ~(-90 <= lat /\ lat <= 90)
    THEN "Latitude must be between -90 and 90 degrees"
    ELSE IF ~(-180 <= lon /\ lon <= 180)
    THEN "Longitude must be between -180 and 180 degrees"
    ELSE ""

\* lines 43-57: the message of the ValueError the service raises, "" when it
\* raises none
ServiceError(fc, lat, lon, s, e) ==
    IF fc < 2 THEN "frame_count must be at least 2"
    ELSE IF ~(-90 <= lat /\ lat <= 90)
    THEN "Latitude must be between -90 and 90 degrees"
    ELSE IF ~(-180 <= lon /\ lon <= 180)
    THEN "Longitude must be between -180 and 180 degrees"
    ELSE IF e <= s THEN "end_datetime must be after start_datetime"
    ELSE ""

\* Divisor with a fault: the span is divided by frame_count
Divisor_FrameCount(fc) == fc

\* the divisor of time_delta = (end_t - start_t) / (frame_count - 1)
Divisor(fc) == fc - 1

\* times[i] = start_t + i * time_delta, as a count of 1 / Divisor(fc) seconds
FrameTime(s, e, fc, i) == s * Divisor(fc) + i * (e - s)

\* t.iso cut at the decimal point: the whole seconds of the instant n / per.
\* (t.iso rounds to the millisecond first, which takes up the rounding error
\* of the float arithmetic; the arithmetic of the model is exact.)
IsoSeconds(n, per) == n \div per

\* the frame yielded for times[i]
Frame(s, e, fc, i) ==
    [kind     |-> "frame",
     datetime |-> IsoSeconds(FrameTime(s, e, fc, i), Divisor(fc)),
     at       |-> FrameTime(s, e, fc, i),
     per      |-> Divisor(fc)]

\* lines 124-134: the metadata item
Metadata(fc, lat, lon, s, e) ==
    [kind           |-> "metadata",
     frame_count    |-> fc,
     latitude       |-> lat,
     longitude      |-> lon,
     start_datetime |-> s,
     end_datetime   |-> e,
     time_span      |-> e - s]

\* next(gen) after n items have been yielded: the validation runs in the first
\* next(gen), then one frame per instant, then the metadata, then the end
GenStep(fc, lat, lon, s, e, n) ==
    IF n = 0 /\ ServiceError(fc, lat, lon, s, e) # ""
    THEN [kind |-> "raise", msg |-> ServiceError(fc, lat, lon, s, e)]
    ELSE IF n < fc THEN Frame(s, e, fc, n)
    ELSE IF n = fc THEN Metadata(fc, lat, lon, s, e)
    ELSE [kind |-> "stop"]

Step == GenStep(frame_count, latitude, longitude, start_dt, end_dt, Len(yielded))

\* IsFrameIndex with a fault: the item after the frames is taken as a frame too
IsFrameIndex_Inclusive(idx, fc) == idx <= fc

\* if idx < frame_count: the item is a frame, else it is the metadata
IsFrameIndex(idx, fc) == idx < fc

\* BatchEarthObservationsRequest: ge / le on frame_count, latitude, longitude
RequestValid(fc, lat, lon) ==
    /\ 2 <= fc /\ fc <= FrameCountLimit
    /\ -90 <= lat /\ lat <= 90
    /\ -180 <= lon /\ lon <= 180

\* ErrorStatus with a fault: every exception is answered as a server error
ErrorStatus_ServerError(e) == 500

\* except ValueError: status_code=400; except Exception: status_code=500
ErrorStatus(e) == IF e = "ValueError" THEN 400 ELSE 500

\* detail=f"Invalid input: {str(e)}"
ErrorDetail(msg) == <<"Invalid input: ", msg>>

\* gen = calculate_batch_earth_observations(...): no line of the generator runs
ConsumeCall ==
    /\ op = "consume"
    /\ pc = "start"
    /\ pc' = "iterate"
    /\ UNCHANGED <<op, ret, err, searchVars, calls, prev, jd, batchVars>>

\* for item in gen: one next(gen) of a caller that collects the items
ConsumeNext ==
    /\ op = "consume"
    /\ pc = "iterate"
    /\ IF Step.kind = "raise"
       THEN /\ pc' = "raised"
            /\ err' = "ValueError"
            /\ detail' = <<Step.msg>>
            /\ UNCHANGED <<yielded, ret>>
       ELSE IF Step.kind = "stop"
       THEN /\ pc' = "done"
            /\ ret' = yielded
            /\ UNCHANGED <<yielded, err, detail>>
       ELSE /\ yielded' = Append(yielded, Step)
            /\ UNCHANGED <<pc, ret, err, detail>>
    /\ UNCHANGED <<op, searchVars, calls, prev, jd, frame_count, latitude,
                   longitude, start_dt, end_dt, frames, metadata, events, status>>

\* POST /batch-earth-observations: the request model is validated, the
\* generator is made, frames = [], metadata = None
PostCall ==
    /\ op = "post"
    /\ pc = "start"
    /\ IF RequestValid(frame_count, latitude, longitude)
       THEN /\ pc' = "iterate"
            /\ frames' = << >>
            /\ metadata' = << >>
            /\ UNCHANGED status
       ELSE /\ pc' = "done"
            /\ status' = 422
            /\ UNCHANGED <<frames, metadata>>
    /\ UNCHANGED <<op, ret, err, searchVars, calls, prev, jd, frame_count,
                   latitude, longitude, start_dt, end_dt, yielded, events, detail>>

\* POST route: one iteration of for idx, item in enumerate(gen), the return of
\* the response after the last one, or the handling of the ValueError.  A
\* response without metadata is refused by the response model, whose
\* validation error is a ValueError.
PostNext ==
    /\ op = "post"
    /\ pc = "iterate"
    /\ LET idx == Len(yielded)
       IN  IF Step.kind = "raise" \/ (Step.kind = "stop" /\ metadata = << >>)
           THEN /\ pc' = "done"
                /\ err' = "HTTPException"
                /\ status' = ErrorStatus("ValueError")
                /\ detail' = ErrorDetail(IF Step.kind = "raise" THEN Step.msg
                                         ELSE "metadata: none is not an allowed value")
                /\ ret' = << >>
                /\ UNCHANGED <<yielded, frames, metadata>>
           ELSE IF Step.kind = "stop"
           THEN /\ pc' = "done"
                /\ status' = 200
                /\ ret' = <<[frames |-> frames, metadata |-> metadata]>>
                /\ UNCHANGED <<err, detail, yielded, frames, metadata>>
           ELSE /\ yielded' = Append(yielded, Step)
                /\ IF IsFrameIndex(idx, frame_count)
                   THEN frames' = Append(frames, Step) /\ metadata' = metadata
                   ELSE metadata' = <<Step>> /\ frames' = frames
                /\ UNCHANGED <<pc, err, status, detail, ret>>
    /\ UNCHANGED <<op, searchVars, calls, prev, jd, frame_count, latitude,
                   longitude, start_dt, end_dt, events>>

\* GET /batch-earth-observations-stream: event_generator is defined and handed
\* to StreamingResponse, which starts the response with status 200 before it
\* takes the first event
StreamCall ==
    /\ op = "stream"
    /\ pc = "start"
    /\ pc' = "iterate"
    /\ status' = 200
    /\ events' = << >>
    /\ UNCHANGED <<op, ret, err, searchVars, calls, prev, jd, frame_count,
                   latitude, longitude, start_dt, end_dt, yielded, frames,
                   metadata, detail>>

\* SSE route: one iteration of for idx, item in enumerate(gen) in
\* event_generator, while the response is being sent
StreamNext ==
    /\ op = "stream"
    /\ pc = "iterate"
    /\ LET idx == Len(yielded)
       IN  IF Step.kind = "raise"
           THEN /\ pc' = "raised"
                /\ err' = "ValueError"
                /\ detail' = <<Step.msg>>
                /\ UNCHANGED <<yielded, events>>
           ELSE IF Step.kind = "stop"
           THEN /\ pc' = "done"
                /\ UNCHANGED <<err, detail, yielded, events>>
           ELSE /\ yielded' = Append(yielded, Step)
                /\ events' = Append(events,
                       IF IsFrameIndex(idx, frame_count)
                       THEN [event |-> "frame", id |-> idx, data |-> Step]
                       ELSE [event |-> "metadata", id |-> -1, data |-> Step])
                /\ UNCHANGED <<pc, err, detail>>
    /\ UNCHANGED <<op, ret, searchVars, calls, prev, jd, frame_count, latitude,
                   longitude, start_dt, end_dt, frames, metadata, status>>

\* a request about to be served, or a direct call of the service
InitBatch ==
    /\ op \in BatchOps
    /\ pc = "start"
    /\ ret = << >>
    /\ err = ""
    /\ frame_count \in 0..MaxFrames
    /\ latitude \in Latitudes
    /\ longitude \in Longitudes
    /\ start_dt \in 0..MaxSeconds
    /\ end_dt \in 0..MaxSeconds
    /\ yielded = << >>
    /\ frames = << >>
    /\ metadata = << >>
    /\ events = << >>
    /\ status = 0
    /\ detail = << >>
    /\ NoSearch
    /\ FirstCall
    /\ NoWeekday

NextBatch ==
    \/ ConsumeCall \/ ConsumeNext
    \/ PostCall \/ PostNext
    \/ StreamCall \/ StreamNext

SpecBatch == InitBatch /\ [][NextBatch]_vars

---------------------------------------------------------------------------
(* jd_to_weekday, src/DayOfTheWeek.py.                                      *)
(*                                                                          *)
(* jd is a float.  A float of the model has FloatBits bits of precision (a  *)
(* double has 53): it is a whole number n of units with |n| = m * 2^e and   *)
(* m < 2^FloatBits.  1.0 is One units, so that the floats of [0.25, 0.5)    *)
(* are one unit apart and those of [0.5, 1) two, as the doubles below and   *)
(* above 0.5 are 2^-54 and 2^-53 apart.  A sum is rounded to the nearest    *)
(* float, a tie to the one whose m is even.                                 *)

\* the number of bits of precision of a float
FloatBits == 3

RECURSIVE Pow2(_)
Pow2(n) == IF n = 0 THEN 1 ELSE 2 * Pow2(n - 1)

\* 1.0 and 0.5, in units
One == Pow2(FloatBits + 1)
Half == One \div 2

\* the spacing of the floats around the magnitude n
RECURSIVE Ulp(_, _)
Ulp(n, q) == IF n < Pow2(FloatBits) * q THEN q ELSE Ulp(n, 2 * q)

\* the float nearest to the magnitude n, ties to even
RoundMagnitude(n) ==
    LET q     == Ulp(n, 1)
        lower == (n \div q) * q
        rem   == n - lower
    IN  IF 2 * rem < q THEN lower
        ELSE IF 2 * rem > q THEN lower + q
        ELSE IF (lower \div q) % 2 = 0 THEN lower ELSE lower + q

\* the float nearest to x
RoundToFloat(x) == IF x >= 0 THEN RoundMagnitude(x) ELSE 0 - RoundMagnitude(0 - x)

\* the floats from -2 * 2^FloatBits to 2 * 2^FloatBits
Floats ==
    {x \in (0 - 2 * Pow2(FloatBits) * One)..(2 * Pow2(FloatBits) * One) :
        RoundToFloat(x) = x}

\* jd + 0.5 in float arithmetic
FloatAdd(a, b) == RoundToFloat(a + b)

\* math.floor(x), a whole number
Floor(x) == x \div One

\* jdn = int(math.floor(jd + 0.5)); return (jdn + 1) % 7
jd_to_weekday(x) ==
    LET jdn == Floor(FloatAdd(x, Half))
    IN  (jdn + 1) % 7

\* a call of jd_to_weekday
Weekday ==
    /\ op = "jd_to_weekday"
    /\ pc = "start"
    /\ ret' = <<jd_to_weekday(jd)>>
    /\ pc' = "done"
    /\ UNCHANGED <<op, err, searchVars, calls, prev, jd, batchVars>>

InitWeekday ==
    /\ op = "jd_to_weekday"
    /\ pc = "start"
    /\ jd \in Floats
    /\ ret = << >>
    /\ err = ""
    /\ NoSearch
    /\ FirstCall
    /\ NoBatch

NextWeekday == Weekday

SpecWeekday == InitWeekday /\ [][NextWeekday]_vars

---------------------------------------------------------------------------
(* Properties of repeated calls (checked under SpecRepeat). *)

\* C12: for a fixed altitude function, a call of sunrise, sunset, moonrise,
\* moonset or find_altitude_crossings made again with identical inputs ends as
\* the call before it did, with the same returned value or the same exception:
\* nothing an earlier call leaves behind changes the result of a later one.
C12_SameOutcome ==
    (calls > 1 /\ pc \in {"done", "raised"}) => prev = <<Outcome>>

\* C12 witness: a second call of find_altitude_crossings has returned two
\* events after a first call that went through its bisection.
C12_Witness ==
    /\ op = "find_altitude_crossings" /\ calls = 2 /\ pc = "done"
    /\ Len(ret) = 2 /\ tolerance >= 2

\* a second call of sunrise has returned an instant
SunriseCalledAgain ==
    op = "sunrise" /\ calls = 2 /\ pc = "done" /\ ret # << >>

---------------------------------------------------------------------------
(* Properties of find_altitude_crossings (checked under SpecFac). *)

\* a call with a well-formed window and tolerance
ValidCall == end_time > start_time /\ tolerance > 0

\* event i of the list belongs to the bracket times[BracketLo(i)], times[BracketLo(i) + 1]
BracketLo(i) == sign_changes[i]

Increasing(f, lo, hi) == \A t \in lo..(hi - 1) : f[t] < f[t + 1]
Decreasing(f, lo, hi) == \A t \in lo..(hi - 1) : f[t] > f[t + 1]
StrictlyMonotone(f, lo, hi) == Increasing(f, lo, hi) \/ Decreasing(f, lo, hi)

\* The true crossing of a strictly monotone altitude inside lo..hi lies in
\* [TrueLo, TrueHi]: at the tick whose altitude is the target if there is one,
\* else between the last tick on lo's side and the next one.
ZeroTicks(lo, hi) == {t \in lo..hi : alt[t] - target = 0}
SameSide(lo, hi) == {t \in lo..hi : Sign(alt[t] - target) = Sign(alt[lo] - target)}
TrueLo(lo, hi) ==
    IF ZeroTicks(lo, hi) # {} THEN MaxOf(ZeroTicks(lo, hi)) ELSE MaxOf(SameSide(lo, hi))
TrueHi(lo, hi) ==
    IF ZeroTicks(lo, hi) # {} THEN MaxOf(ZeroTicks(lo, hi)) ELSE MaxOf(SameSide(lo, hi)) + 1

\* t is within tol (half ticks) of some instant of [lo, hi]
WithinTol(t, lo, hi, tol) == 2 * (lo - t) <= tol /\ 2 * (t - hi) <= tol

EventWithinTol(i) ==
    LET lo == times[BracketLo(i)]
        hi == times[BracketLo(i) + 1]
    IN  WithinTol(crossings[i].time, TrueLo(lo, hi), TrueHi(lo, hi), tolerance)

\* a well-formed call whose tolerance is at least the time resolution
ResolvableCall == ValidCall /\ tolerance >= 2

\* C1 (the claim as stated): for a well-formed call, the event time of every
\* bracket across which the altitude is strictly monotone, rising or setting,
\* lies within tolerance of the true crossing instant.
C1_WithinTolerance ==
    ResolvableCall =>
        \A i \in 1..Len(crossings) :
            StrictlyMonotone(alt, times[BracketLo(i)], times[BracketLo(i) + 1])
                => EventWithinTol(i)

\* The rising half of C1, which the code does satisfy: the event time of a
\* bracket across which the altitude is strictly increasing lies within
\* tolerance of the true crossing instant.
C1_RisingWithinTolerance ==
    ResolvableCall =>
        \A i \in 1..Len(crossings) :
            Increasing(alt, times[BracketLo(i)], times[BracketLo(i) + 1])
                => EventWithinTol(i)

NonDecreasingTimes(evs) ==
    \A i \in 1..(Len(evs) - 1) : evs[i].time <= evs[i + 1].time
StrictlyIncreasingTimes(evs) ==
    \A i \in 1..(Len(evs) - 1) : evs[i].time < evs[i + 1].time

\* the tolerance is at least one tick and smaller than the spacing of the
\* coarse samples: every bracket is bisected at least once
FineTolerance ==
    /\ tolerance >= 2
    /\ \A i \in 1..(Len(times) - 1) : Exceeds(times[i], times[i + 1], tolerance)

\* C2 (the claim as stated): the returned list is in strictly increasing time
\* order for every altitude function, coarse step and tolerance > 0.
C2_StrictOrder ==
    (pc = "done" /\ ValidCall) => StrictlyIncreasingTimes(ret)

\* C2 (amended): the returned list is in non-decreasing time order for every
\* altitude function, coarse step and tolerance > 0, and in strictly
\* increasing order when the tolerance is at least the time resolution and
\* smaller than the spacing of the coarse samples.
C2_Ordered ==
    (pc = "done" /\ ValidCall) =>
        /\ NonDecreasingTimes(ret)
        /\ FineTolerance => StrictlyIncreasingTimes(ret)

\* C2 witness: a call with a fine tolerance has returned two or more events.
C2_Witness ==
    pc = "done" /\ ValidCall /\ FineTolerance /\ Len(ret) >= 2

\* the adjacent coarse pairs whose sign of (altitude - target) differs
DifferingPairs ==
    {i \in 1..(Len(diffs) - 1) : Sign(diffs[i]) # Sign(diffs[i + 1])}
AllAbove == \A i \in 1..Len(diffs) : diffs[i] > 0
AllBelow == \A i \in 1..Len(diffs) : diffs[i] < 0
AllAtTarget == \A i \in 1..Len(diffs) : diffs[i] = 0

\* one event per differing pair, in order, each inside its pair
OneEventPerPair ==
    /\ Len(ret) = Cardinality(DifferingPairs)
    /\ \A i \in 1..Len(ret) :
           /\ BracketLo(i) \in DifferingPairs
           /\ times[BracketLo(i)] <= ret[i].time
           /\ ret[i].time <= times[BracketLo(i) + 1]
    /\ \A i \in 1..(Len(ret) - 1) : BracketLo(i) < BracketLo(i + 1)

\* C3 (the claim as stated): the call returns exactly one event for each
\* adjacent coarse pair whose sign differs, and the empty list exactly when
\* the body is above the target at every sample or below it at every sample.
C3_EmptyIffAboveOrBelow ==
    (pc = "done" /\ ValidCall) =>
        /\ OneEventPerPair
        /\ (ret = << >>) <=> (AllAbove \/ AllBelow)

\* C3 (amended): the call returns exactly one event for each adjacent coarse
\* pair whose sign differs, and the empty list exactly when no pair differs,
\* i.e. when the body is above the target at every sample, below it at every
\* sample, or exactly at it at every sample.
C3_OneEventPerSignChange ==
    (pc = "done" /\ ValidCall) =>
        /\ OneEventPerPair
        /\ (ret = << >>) <=> (DifferingPairs = {})
        /\ (ret = << >>) <=> (AllAbove \/ AllBelow \/ AllAtTarget)

\* C3 witness: a call over a grid with a sample exactly at the target, two
\* differing pairs and two events has returned.
C3_Witness ==
    /\ pc = "done" /\ ValidCall
    /\ Len(ret) = 2
    /\ \E i \in 1..Len(diffs) : diffs[i] = 0

RisingBracket(i) == diffs[BracketLo(i)] < 0 /\ diffs[BracketLo(i) + 1] > 0
SettingBracket(i) == diffs[BracketLo(i)] > 0 /\ diffs[BracketLo(i) + 1] < 0

TagAgrees(i) ==
    /\ crossings[i].type \in {"rise", "set"}
    /\ RisingBracket(i) => crossings[i].type = "rise"
    /\ SettingBracket(i) => crossings[i].type = "set"

\* C4 (the claim as stated): every event is tagged 'rise' or 'set', and the
\* tag agrees with the direction of the sign change of its bracket.
C4_TagMatchesBracket ==
    ValidCall => \A i \in 1..Len(crossings) : TagAgrees(i)

\* the altitude is strictly monotone from Eps before the bracket's left sample
\* to Eps after its right sample
MonotoneAround(i) ==
    StrictlyMonotone(alt, times[BracketLo(i)] - Eps, times[BracketLo(i) + 1] + Eps)

\* C4 (amended): every event is tagged 'rise' or 'set', and the tag agrees with
\* the direction of the sign change of its bracket whenever the altitude is
\* strictly monotone from one minute before the bracket to one minute after it.
C4_TagMatchesMonotoneBracket ==
    ValidCall =>
        \A i \in 1..Len(crossings) :
            /\ crossings[i].type \in {"rise", "set"}
            /\ MonotoneAround(i) => TagAgrees(i)

\* C4 witness: a setting bracket of a monotone altitude has been tagged 'set'
\* after at least one bisection step.
C4_Witness ==
    /\ ValidCall /\ FineTolerance
    /\ \E i \in 1..Len(crossings) :
           MonotoneAround(i) /\ SettingBracket(i) /\ crossings[i].type = "set"

\* C9 (the claim as stated): a call with tolerance <= 0 is rejected before
\* any altitude is sampled, so it never enters the bisection loop.  The window
\* is well formed, so that nothing else can reject the call.
C9_ToleranceRejected ==
    (tolerance <= 0 /\ end_time > start_time) => pc # "bisect"

\* C10 (the claim as stated): a call with end_time <= start_time is rejected
\* with an input error before any altitude is sampled; it does not return a
\* result list.  The tolerance is well formed.
C10_WindowRejected ==
    (end_time <= start_time /\ tolerance > 0) =>
        /\ pc \in {"start", "raised"}
        /\ times = << >>

\* C11 (the claim as stated): a call whose coarse_step is larger than the
\* window end_time - start_time is rejected with an input error before any
\* altitude is sampled.  The window and the tolerance are well formed, so that
\* the step is the only thing to reject.
C11_StepRejected ==
    (ValidCall /\ coarse_step > end_time - start_time) =>
        /\ pc \in {"start", "raised"}
        /\ times = << >>

\* the values at the two ends of the current bracket are not of the same
\* strict sign
SignChangeKept == ~(left_val > 0 /\ right_val > 0) /\ ~(left_val < 0 /\ right_val < 0)

\* C19 (the claim as stated): for every detected bracket, rising or setting,
\* the values of (altitude - target) at the current left and right endpoints
\* are not of the same strict sign, when the bisection starts and after each
\* of its steps.
C19_SignChangeKept ==
    (pc = "bisect" /\ ResolvableCall) => SignChangeKept

\* The rising half of C19, which the code does satisfy: in a bracket that
\* goes from at or below the target to at or above it, the left value stays
\* at or below the target and the right value at or above it.
RisingSignChangeKept ==
    (pc = "bisect" /\ ResolvableCall
        /\ diffs[sign_changes[k]] <= 0 /\ diffs[sign_changes[k] + 1] >= 0)
        => (left_val <= 0 /\ right_val >= 0)

---------------------------------------------------------------------------
(* Properties of the daily searches (checked under SpecDaily). *)

\* the UTC date of an instant (dates are numbered from tick 0), and the 24 hours
\* centred on that date's 12:00 UTC
DateOf(t) == t \div DailyHi
NoonOfDate(t) == DateOf(t) * DailyHi + HalfDay
WindowOfDate(t) == [i \in 1..DailyN |-> NoonOfDate(t) + Hours[i]]

\* C13 (the claim as stated): sunrise, sunset, moonrise and moonset search the
\* 24 hours centred on 12:00 UTC of the UTC date of julianDate, which is the
\* window searched for every other julianDate of the same UTC date.
C13_WindowOfDate ==
    (op \in DailyOps /\ pc # "start") =>
        /\ times = WindowOfDate(julianDate)
        /\ \A d \in JulianDates :
               DateOf(d) = DateOf(julianDate) => DailyTimes(d) = times

\* For the julianDate at 00:00 UTC of a date the window searched is the one
\* centred on that date's 12:00 UTC.
WindowOfMidnight ==
    (op \in DailyOps /\ pc # "start" /\ julianDate = DateOf(julianDate) * DailyHi)
        => times = WindowOfDate(julianDate)

\* C5: if the body is strictly above the target at every daily sample, or
\* strictly below it at every daily sample, each of sunrise, sunset, moonrise
\* and moonset returns None and raises nothing.
C5_CircumpolarReturnsNone ==
    (op \in DailyOps /\ pc # "start" /\ (AllAbove \/ AllBelow)) =>
        /\ pc = "done"
        /\ ret = << >>
        /\ err = ""

\* C5 witness: sunrise has returned None for a body above the target at every
\* sample (the first sample is in the morning zone and is not a crossing).
C5_Witness ==
    /\ op = "sunrise" /\ pc = "done" /\ ret = << >>
    /\ Len(diffs) = DailyN /\ AllAbove

\* some adjacent pair of daily samples goes from strictly above the target to
\* at or below it
SetPairExists ==
    \E i \in 1..(Len(diffs) - 1) : diffs[i] > 0 /\ diffs[i + 1] <= 0
\* some adjacent pair of daily samples goes from strictly below the target to
\* at or above it
RisePairExists ==
    \E i \in 1..(Len(diffs) - 1) : diffs[i] < 0 /\ diffs[i + 1] >= 0

\* C6 (the claim as stated): whenever some adjacent pair of the daily samples
\* goes from strictly above the target to at or below it, moonset (called with
\* a tolerance of at least the time resolution) returns an instant, not None.
C6_MoonsetFindsSet ==
    (op = "moonset" /\ pc = "done" /\ tolerance >= 2 /\ SetPairExists)
        => ret # << >>

\* C7 (the claim as stated): whenever some adjacent pair of the daily samples
\* goes from strictly below the target to at or above it, moonrise (called with
\* a tolerance of at least the time resolution) returns an instant, not None.
C7_MoonriseFindsRise ==
    (op = "moonrise" /\ pc = "done" /\ tolerance >= 2 /\ RisePairExists)
        => ret # << >>

\* the outcomes <<rise found, set found>> of moonrise and moonset over the same
\* window, for every altitude profile and target, at a tolerance of one tick
DailyOutcomes ==
    {<<DailyResult("moonrise", f, tgt, 2, 0) # << >>,
       DailyResult("moonset", f, tgt, 2, 0) # << >>>> :
        f \in Profiles(0, DailyHi), tgt \in Targets}

\* C8: each of (rise found, set found), (rise found, set None), (rise None,
\* set found) and (rise None, set None) is the outcome of moonrise and moonset
\* for some altitude profile.
C8_AllFourOutcomes == op \in DailyOps => DailyOutcomes = BOOLEAN \X BOOLEAN

\* C8 witness: moonset has returned an instant for a profile on which moonrise
\* returns None.
C8_Witness ==
    /\ op = "moonset" /\ pc = "done" /\ ret # << >>
    /\ tolerance >= 2
    /\ DailyResult("moonrise", alt, target, tolerance, julianDate) = << >>

---------------------------------------------------------------------------
(* Properties of the batch service and its routes (checked under SpecBatch). *)

\* a request the service accepts
ValidRequest ==
    ServiceError(frame_count, latitude, longitude, start_dt, end_dt) = ""

\* the items yielded so far: frames up to frame_count, then the metadata
FramesThenMetadata ==
    /\ Len(yielded) <= frame_count + 1
    /\ \A i \in 1..Len(yielded) :
           yielded[i].kind = IF i <= frame_count THEN "frame" ELSE "metadata"

\* the response of the POST route holds the frame_count frames and the metadata
PostDelivers ==
    /\ status = 200
    /\ Len(ret) = 1
    /\ ret[1].frames = SubSeq(yielded, 1, frame_count)
    /\ ret[1].metadata = <<yielded[frame_count + 1]>>
    /\ ret[1].metadata[1].frame_count = frame_count

\* the stream holds the frame events with ids 0..frame_count-1, then one
\* metadata event
StreamDelivers ==
    /\ status = 200
    /\ Len(events) = frame_count + 1
    /\ \A i \in 1..frame_count :
           /\ events[i].event = "frame"
           /\ events[i].id = i - 1
           /\ events[i].data = yielded[i]
    /\ events[frame_count + 1].event = "metadata"
    /\ events[frame_count + 1].data = yielded[frame_count + 1]
    /\ events[frame_count + 1].data.frame_count = frame_count

PostReturned ==
    op = "post" /\ pc = "done" /\ ValidRequest /\ status = 200 /\ frame_count >= 3

\* the inputs the service has to refuse
InvalidInput ==
    \/ frame_count < 2
    \/ latitude < -90 \/ latitude > 90
    \/ longitude < -180 \/ longitude > 180
    \/ end_dt <= start_dt

\* C15: if frame_count < 2, the latitude is outside [-90, 90], the longitude is
\* outside [-180, 180] or the end is not strictly after the start, consuming
\* the generator raises ValueError before any frame or metadata item is
\* yielded: no item is ever yielded, and the consumer ends in the ValueError.
C15_InvalidRaisesFirst ==
    (op \in BatchOps /\ InvalidInput) =>
        /\ yielded = << >>
        /\ op \in {"consume", "stream"} =>
               /\ pc \in {"start", "iterate", "raised"}
               /\ pc = "raised" =>
                      /\ err = "ValueError"
                      /\ detail = <<ServiceError(frame_count, latitude, longitude,
                                                 start_dt, end_dt)>>
                      /\ detail # <<"">>

\* C15 witness: a direct consumer has got the ValueError of a request whose
\* end is not after its start and that is valid otherwise.
C15_Witness ==
    /\ op = "consume" /\ pc = "raised" /\ err = "ValueError"
    /\ end_dt <= start_dt
    /\ RequestValid(frame_count, latitude, longitude)


\* frame i (1-based) is taken at start + (i - 1) * (end - start) / (frame_count - 1)
TakenOnTime(i) ==
    yielded[i].at * (frame_count - 1) =
        yielded[i].per * (start_dt * (frame_count - 1) + (i - 1) * (end_dt - start_dt))

\* frame i is later than frame i - 1, and as far from it as frame i - 1 is
\* from frame i - 2
LaterAndEven(i) ==
    /\ yielded[i].per = yielded[i - 1].per
    /\ yielded[i].at > yielded[i - 1].at
    /\ i > 2 =>
           /\ yielded[i - 1].per = yielded[i - 2].per
           /\ yielded[i].at - yielded[i - 1].at = yielded[i - 1].at - yielded[i - 2].at

\* C16: frame i (0-based) is taken at start + i * (end - start) / (frame_count
\* - 1); the datetime of the first frame is the start datetime, that of the
\* last frame is the end datetime, and the frame times are strictly increasing
\* and evenly spaced.
C16_EvenlySpaced ==
    (op \in BatchOps /\ ValidRequest) =>
        \A i \in 1..Len(yielded) :
            yielded[i].kind = "frame" =>
                /\ TakenOnTime(i)
                /\ i = 1 => yielded[i].datetime = start_dt
                /\ i = frame_count => yielded[i].datetime = end_dt
                /\ i > 1 => LaterAndEven(i)

\* C16 witness: all frames of a request of three or more frames have been
\* yielded, one of them at an instant between two whole seconds.
C16_Witness ==
    /\ op = "consume" /\ pc = "done" /\ ValidRequest
    /\ frame_count >= 3
    /\ \E i \in 1..frame_count : yielded[i].at % yielded[i].per # 0


\* the detail of the error response contains msg
DetailContains(msg) == \E i \in 1..Len(detail) : detail[i] = msg

\* C17: for POST /batch-earth-observations a ValueError raised while the
\* generator is consumed (the end datetime is not after the start datetime, in
\* a request that the request model accepts) gives HTTP 400 whose detail
\* contains the message of the service, and no frames are returned; no
\* response with status 400 carries frames.
C17_ValueErrorIs400 ==
    /\ (op = "post" /\ pc = "done" /\ end_dt <= start_dt
            /\ RequestValid(frame_count, latitude, longitude)) =>
           /\ status = 400
           /\ DetailContains("end_datetime must be after start_datetime")
           /\ ret = << >>
    /\ (op = "post" /\ status = 400) => (ret = << >> /\ pc = "done")

\* C17 witness: the POST route has answered 400 to a request whose end is
\* before its start.
C17_Witness ==
    /\ op = "post" /\ pc = "done" /\ status = 400
    /\ end_dt < start_dt
    /\ yielded = << >>


\* The datetime strings are the frame times cut to whole seconds: they never
\* decrease, and two frames less than a second apart can show the same one.
DatetimesNeverDecrease ==
    (op \in BatchOps /\ ValidRequest) =>
        \A i \in 2..Len(yielded) :
            yielded[i].kind = "frame" => yielded[i].datetime >= yielded[i - 1].datetime


---------------------------------------------------------------------------
(* Properties of jd_to_weekday (checked under SpecWeekday). *)

\* the civil day of jd: the whole number k with k - 0.5 <= jd < k + 0.5
CivilDay(x) == (x + Half) \div One

\* C18 (the claim as stated): for every Julian date jd_to_weekday returns a
\* whole number in 0..6, the same all over each civil day [k - 0.5, k + 0.5),
\* where it is (k + 1) mod 7, so that it always indexes DAY_NAMES validly.
C18_WeekdayOfCivilDay ==
    (op = "jd_to_weekday" /\ pc = "done") =>
        /\ ret[1] \in 0..6
        /\ ret[1] = (CivilDay(jd) + 1) % 7

\* What does hold: the result always is a whole number in 0..6, and it is
\* the weekday of the civil day for every jd from 1.0 up to, not including,
\* 2^(FloatBits - 1), where jd + 0.5 is a float (for a double: up to 2^52).
WeekdayOfCivilDayInRange ==
    (op = "jd_to_weekday" /\ pc = "done") =>
        /\ ret[1] \in 0..6
        /\ (One <= jd /\ jd < Pow2(FloatBits - 1) * One)
               => ret[1] = (CivilDay(jd) + 1) % 7


---------------------------------------------------------------------------
(* Properties of the bisection of the daily searches (checked under *)
(* SpecRefine).                                                     *)

\* the values lv at the left and rv at the right instant bracket the target
\* in the direction of the search
Brackets(lv, rv) ==
    IF Ascending(op) THEN lv <= 0 /\ 0 <= rv ELSE lv >= 0 /\ 0 >= rv

\* the last instant the altitude was drawn for: the right instant handed in
RightHandedIn == MaxOf(DOMAIN alt)

\* C20: started on a bracket with left value <= 0 <= right value (ascending)
\* or left value >= 0 >= right value (descending), the bisection keeps that
\* relation at every iteration, stops with right - left <= tolerance, and
\* returns the right endpoint, at which the altitude is >= target for
\* ascending and <= target for descending.
C20_RefineKeepsBracket ==
    (op \in DailyOps /\ Brackets(left_val, right_val)) =>
        /\ Brackets(alt_at(alt, left) - target, alt_at(alt, right) - target)
        /\ left <= right
        /\ pc = "done" =>
               /\ ~Exceeds(left, right, tolerance)
               /\ ret = <<right>>
               /\ IF Ascending(op) THEN alt_at(alt, ret[1]) >= target
                                   ELSE alt_at(alt, ret[1]) <= target

\* C20 witness: a descending bisection, started on a bracket three or more
\* ticks wide, has moved both ends and returned.
C20_Witness ==
    /\ op = "sunset" /\ pc = "done" /\ Brackets(left_val, right_val)
    /\ RightHandedIn >= 3
    /\ left > 0 /\ right < RightHandedIn
    /\ ret = <<right>>

---------------------------------------------------------------------------
(* Properties of the bracket a daily search hands to its bisection (checked *)
(* under SpecDaily).                                                        *)

\* the bracket the running search chose from its samples
ChosenBracket == BracketOf(op, alt, times, target)

\* the values of (altitude - target) at the two ends of the chosen bracket
\* bracket the target in the direction of the search
ChosenBracketHasSignChange ==
    Brackets(alt_at(alt, ChosenBracket.left) - target,
             alt_at(alt, ChosenBracket.right) - target)

\* C21 (the claim as stated): whenever sunrise or moonrise starts bisecting,
\* left value <= 0 <= right value, and whenever sunset or moonset starts
\* bisecting, left value >= 0 >= right value, also when a coarse sample lies
\* exactly at the target.
C21_BracketHasSignChange ==
    (op \in DailyOps /\ pc = "bisect") => ChosenBracketHasSignChange

\* The part of C21 the code does satisfy: the descending searches always, and
\* the ascending searches unless the first sample of the window lies exactly
\* at the target.
BracketHasSignChangeUnlessFirstAtTarget ==
    (op \in DailyOps /\ pc = "bisect" /\ (Ascending(op) => diffs[1] # 0))
        => ChosenBracketHasSignChange


\* i is the first index from lo to hi whose (altitude - target) satisfies the
\* test of the search: >= 0 towards a rise, <= 0 towards a set
FirstReached(i, lo, hi, rising) ==
    /\ i \in lo..hi
    /\ IF rising THEN diffs[i] >= 0 ELSE diffs[i] <= 0
    /\ \A j \in lo..(i - 1) : IF rising THEN diffs[j] < 0 ELSE diffs[j] > 0

\* the search returned an instant t with times[i-1] < t <= times[i]
ReturnedWithin(i) ==
    /\ Len(ret) = 1
    /\ times[i - 1] < ret[1]
    /\ ret[1] <= times[i]

\* C22: when the first daily sample is strictly below the target and idx is
\* the first index up to noon_idx with (altitude - target) >= 0, sunrise
\* returns an instant t with times[idx-1] < t <= times[idx]; when idx is the
\* first index from noon_idx on with (altitude - target) <= 0 and
\* idx > noon_idx, sunset returns an instant t with
\* times[idx-1] < t <= times[idx].
C22_ReturnedInsidePair ==
    (pc = "done" /\ op \in {"sunrise", "sunset"}) =>
        \A idx \in 2..DailyN :
            /\ (op = "sunrise" /\ diffs[1] < 0
                    /\ FirstReached(idx, 1, noon_idx, TRUE))
                   => ReturnedWithin(idx)
            /\ (op = "sunset" /\ idx > noon_idx
                    /\ FirstReached(idx, noon_idx, DailyN, FALSE))
                   => ReturnedWithin(idx)

\* C22 witness: sunset has returned an instant strictly between the sample
\* before the first one at or below the target and that sample.
C22_Witness ==
    /\ pc = "done" /\ op = "sunset"
    /\ \E idx \in 2..DailyN :
           /\ idx > noon_idx
           /\ FirstReached(idx, noon_idx, DailyN, FALSE)
           /\ ReturnedWithin(idx)
           /\ ret[1] < times[idx]

\* the same for sunrise
SunriseReturnedInsidePair ==
    /\ pc = "done" /\ op = "sunrise" /\ diffs[1] < 0
    /\ \E idx \in 2..DailyN :
           /\ FirstReached(idx, 1, noon_idx, TRUE)
           /\ ReturnedWithin(idx)
           /\ ret[1] < times[idx]

---------------------------------------------------------------------------
(* Termination of the bisection (checked under SpecRefineLive). *)

\* The loop of _refine_crossing_time runs on its own in one thread: an
\* iteration that can be taken is taken, and the return is reached when the
\* loop condition fails.
SpecRefineLive == SpecRefine /\ WF_vars(DailyBisect) /\ WF_vars(DailyReturn)

\* C23 (the claim as stated): for every tolerance > 0 the bisection loop
\* terminates.  An iteration that assigns left = mid = left (or
\* right = mid = right) changes no variable: the loop that runs on without
\* progress is a behaviour that stutters in pc = "bisect".
C23_BisectionTerminates == (tolerance > 0) ~> (pc = "done")

\* The part of C23 the code does satisfy: a tolerance that the time scale can
\* resolve ends the loop.
ResolvableBisectionTerminates == (tolerance >= 2) ~> (pc = "done")

\* an iteration halves the width of the bracket, up to the rounding of the
\* midpoint to the time scale
WidthHalves == [][DailyBisect => 2 * (right' - left') <= (right - left) + 1]_vars

---------------------------------------------------------------------------
(* Properties of the coarse grid of find_altitude_crossings (checked under *)
(* SpecFac).                                                               *)

\* the exact instant of sample i of the grid built, as a numerator over
\* Len(times) - 1
SampleInstant(i) == GridInstant(start_time, end_time, Len(times), i)

\* C24: for end_time > start_time and coarse_step > 0 the coarse grid has
\* ceil((end - start) / coarse_step) + 1 samples, the first exactly at
\* start_time and the last exactly at end_time, strictly increasing and
\* equally spaced with a spacing that never exceeds coarse_step.
C24_CoarseGrid ==
    (op = "find_altitude_crossings" /\ pc # "start"
        /\ end_time > start_time /\ coarse_step > 0) =>
        LET n   == Len(times)
            per == n - 1
        IN  /\ per >= 1
            /\ per * coarse_step >= end_time - start_time
            /\ (per - 1) * coarse_step < end_time - start_time
            /\ \A i \in 1..n : times[i] = SampleInstant(i) \div per
            /\ SampleInstant(1) = start_time * per /\ times[1] = start_time
            /\ SampleInstant(n) = end_time * per /\ times[n] = end_time
            /\ \A i \in 1..(n - 1) :
                   /\ SampleInstant(i) < SampleInstant(i + 1)
                   /\ SampleInstant(i + 1) - SampleInstant(i)
                          = SampleInstant(2) - SampleInstant(1)
                   /\ SampleInstant(i + 1) - SampleInstant(i) <= coarse_step * per

\* C24 witness: a grid of three or more samples has been built whose spacing
\* is smaller than coarse_step (the window is not a multiple of the step).
C24_Witness ==
    /\ op = "find_altitude_crossings" /\ pc # "start"
    /\ end_time > start_time
    /\ Len(times) >= 3
    /\ SampleInstant(2) - SampleInstant(1) < coarse_step * (Len(times) - 1)
    /\ times[Len(times)] = end_time

---------------------------------------------------------------------------
(* Properties of the daily sampler (checked under SpecDaily). *)

\* the altitude of sample i of the daily grid
SampleAlt(i) == alt_at(alt, times[i])

\* C25: the daily sampler returns 241 samples (DailyN here) from
\* midday - 12 h to midday + 12 h inclusive, 6 minutes (DailyGap) apart, and
\* noon_idx is the earliest index whose altitude is greater than or equal to
\* the altitude of every other sample in the window.
C25_DailySamples ==
    (op \in DailyOps /\ pc # "start") =>
        /\ Len(times) = DailyN
        /\ times[1] = Midday(julianDate) - HalfDay
        /\ times[DailyN] = Midday(julianDate) + HalfDay
        /\ \A i \in 1..(DailyN - 1) : times[i + 1] - times[i] = DailyGap
        /\ noon_idx \in 1..DailyN
        /\ \A j \in 1..DailyN : SampleAlt(j) <= SampleAlt(noon_idx)
        /\ \A j \in 1..(noon_idx - 1) : SampleAlt(j) < SampleAlt(noon_idx)

\* C25 witness: the maximum is taken at two samples, neither the first of
\* the window, and noon_idx is the earlier of them.
C25_Witness ==
    /\ op \in DailyOps /\ pc # "start"
    /\ noon_idx > 1
    /\ \E j \in (noon_idx + 1)..DailyN : SampleAlt(j) = SampleAlt(noon_idx)
    /\ \A j \in 1..(noon_idx - 1) : SampleAlt(j) < SampleAlt(noon_idx)

---------------------------------------------------------------------------
(* Properties of the instants and tags find_altitude_crossings returns *)
(* (checked under SpecFac).                                            *)

\* C26 (the claim as stated): the altitude evaluated at every instant
\* returned by find_altitude_crossings is >= target, for rise and for set
\* events alike.
C26_ReturnedAtOrAboveTarget ==
    (op = "find_altitude_crossings" /\ pc = "done" /\ ResolvableCall) =>
        \A i \in 1..Len(ret) : alt_at(alt, ret[i].time) >= target

\* The part of C26 the code does satisfy: the event of a bracket that goes
\* from at or below the target to at or above it is at an instant where the
\* altitude is >= target.
RisingReturnedAtOrAboveTarget ==
    (op = "find_altitude_crossings" /\ pc = "done" /\ ResolvableCall) =>
        \A i \in 1..Len(ret) :
            (diffs[BracketLo(i)] <= 0 /\ diffs[BracketLo(i) + 1] >= 0)
                => alt_at(alt, ret[i].time) >= target


\* consecutive events of the returned list carry different tags
TagsAlternate == \A i \in 1..(Len(ret) - 1) : ret[i].type # ret[i + 1].type

\* C27 (the claim as stated): in the list returned by find_altitude_crossings
\* consecutive events alternate between 'rise' and 'set', also when a coarse
\* sample lies exactly at the target altitude, so that a single crossing of
\* the target never produces two events.
C27_TagsAlternate ==
    (op = "find_altitude_crossings" /\ pc = "done" /\ ResolvableCall)
        => TagsAlternate

\* The part of C27 the code does satisfy: the tags alternate when no coarse
\* sample lies exactly at the target and the altitude is strictly monotone
\* around every bracket.
TagsAlternateAwayFromTarget ==
    (op = "find_altitude_crossings" /\ pc = "done" /\ ResolvableCall
        /\ \A j \in 1..Len(diffs) : diffs[j] # 0
        /\ \A i \in 1..Len(ret) : MonotoneAround(i))
        => TagsAlternate

---------------------------------------------------------------------------
(* Properties of the SSE route (checked under SpecBatch). *)

\* C28 (the claim as stated): for GET /batch-earth-observations-stream,
\* invalid input (frame_count < 2, coordinates out of range, end datetime not
\* after start datetime) results in an HTTP 400 response with detail
\* 'Invalid input: ...'; the ValueError is never raised after a 200 streaming
\* response has been started.
C28_StreamInvalidIs400 ==
    /\ (op = "stream" /\ InvalidInput /\ pc \in {"raised", "done"}) =>
           /\ status = 400
           /\ detail = ErrorDetail(ServiceError(frame_count, latitude, longitude,
                                                start_dt, end_dt))
    /\ ~(op = "stream" /\ status = 200 /\ err = "ValueError")

\* What the SSE route does satisfy: invalid input ends the stream in the
\* service's ValueError before any event has been sent.
StreamInvalidSendsNothing ==
    (op = "stream" /\ InvalidInput /\ pc # "start") =>
        /\ events = << >>
        /\ pc \in {"iterate", "raised"}
        /\ pc = "raised" => err = "ValueError"

---------------------------------------------------------------------------
(* The Moon searches against the Sun searches (checked under SpecDaily). *)

\* the Sun function that searches in the direction of a Moon function
SunOf(o) == IF o = "moonrise" THEN "sunrise" ELSE "sunset"

\* what the Sun function decides for the samples of the running search
SunBracket == BracketOf(SunOf(op), alt, times, target)

\* C29: given the same altitude function, target and tolerance, moonrise
\* follows the same decisions as sunrise and moonset the same decisions as
\* sunset: the Moon function returns None exactly when the Sun function
\* does, and otherwise bisects the same bracket and returns the same instant.
C29_MoonAsSun ==
    (op \in {"moonrise", "moonset"} /\ pc # "start") =>
        /\ pc # "raised"
        /\ ChosenBracket = SunBracket
        /\ (pc = "done" /\ ret = << >>) <=> (SunBracket.kind = "None")
        /\ (pc = "done" /\ ret # << >>) =>
               ret = DailyResult(SunOf(op), alt, target, tolerance, julianDate)

\* C29 witness: moonset has bisected the bracket sunset chooses, moved its
\* left end, and returned the instant sunset returns.
C29_Witness ==
    /\ op = "moonset" /\ pc = "done"
    /\ SunBracket.kind = "bracket"
    /\ left > SunBracket.left
    /\ ret = DailyResult("sunset", alt, target, tolerance, julianDate)

\* moonrise has returned None where sunrise returns None
MoonriseNoneAsSunrise ==
    /\ op = "moonrise" /\ pc = "done" /\ ret = << >>
    /\ BracketOf("sunrise", alt, times, target).kind = "None"


\* C30: moonset never raises, for any altitude profile: the scalar altitude
\* being the vectorized sample at the same instant, the left sample of the
\* chosen bracket is strictly above the target and the right sample at or
\* below it, so neither the step-left branch (which calls alt_at without the
\* location) nor the step-right branch is entered: the bracket handed to the
\* bisection is the pair of samples found.
C30_MoonsetNeverRaises ==
    (op = "moonset") =>
        /\ pc # "raised"
        /\ err = ""
        /\ pc = "bisect" =>
               \E idx \in 2..DailyN :
                   /\ idx > noon_idx
                   /\ FirstReached(idx, noon_idx, DailyN, FALSE)
                   /\ ChosenBracket.left = times[idx - 1]
                   /\ ChosenBracket.right = times[idx]
                   /\ left_val = diffs[idx - 1] /\ left_val > 0
                   /\ right_val = diffs[idx] /\ right_val <= 0

\* C30 witness: moonset has returned an instant from a bracket that begins
\* two or more samples into the window, where the step-left loop would have
\* had samples to visit.
C30_Witness ==
    /\ op = "moonset" /\ pc = "done" /\ Len(ret) = 1
    /\ \E idx \in 3..DailyN :
           /\ FirstReached(idx, noon_idx, DailyN, FALSE)
           /\ ChosenBracket.left = times[idx - 1]
           /\ left_val > 0

=============================================================================
